---- MODULE Spec2Model ----
(***************************************************************************)
(* Tideflow editor: the render coalescer (useContentManagement), the edit  *)
(* listener with its render-debounce and typing-idle timers                *)
(* (useCodeMirrorSetup) and the preview pane (PDFViewer).                   *)
(*                                                                         *)
(* Everything runs on one event loop: an action is one task (a timer       *)
(* callback, an editor update, the continuation of an await).              *)
(***************************************************************************)
EXTENDS Integers, Sequences, FiniteSets, TLC

\* ------------------------------------------------------------------ bounds
MaxEdits == 3
MaxTicks == 9
Texts == {"", "a"}
Keys == {"k1", "k2"}

\* ------------------------------------------------------- program constants
RENDER_DEBOUNCE_DEFAULT_MS == 400
TYPING_IDLE_THRESHOLD_MS == 800
CITATION_WARNING_WINDOW_MS == 3000

\* the render delay preference (Toolbar slider: 100..2000 in steps of 100)
RenderDelays == {RENDER_DEBOUNCE_DEFAULT_MS, 2 * RENDER_DEBOUNCE_DEFAULT_MS}

\* the clock advances in steps of the default render delay
TickMs == RENDER_DEBOUNCE_DEFAULT_MS
MaxTime == MaxTicks * TickMs

\* optional values (null | x) are sequences of length 0 or 1
None == <<>>
Some(x) == <<x>>

\* JavaScript truthiness of a (string | null) value
Truthy(opt) == opt # None /\ opt[1] # ""

VARIABLES
    now,                        \* Date.now(), ms
    renderDebounceMs,           \* the delay the listener closed over at creation
    mounted,                    \* the editor view exists (effect not cleaned up)
    doc,                        \* view.state.doc.toString()
    content,                    \* store: editor.content
    modified,                   \* store: editor.modified
    isTyping,                   \* store: isTyping
    isUserTypingRef,
    timers,                     \* pending setTimeout callbacks
    contentChangeTimeoutRef,    \* id of the last render-debounce timer, 0 = null
    typingDetectionTimeoutRef,  \* id of the last typing-idle timer, 0 = null
    contentChangeAbortRef,      \* id of the last AbortController, 0 = null
    aborted,                    \* AbortControllers whose signal is aborted
    autoRenderInFlightRef,
    pendingRenderRef,
    calls,                      \* every renderTypst call made so far, in call order
    compileStatus,
    sourceMap,
    syncMode,
    lastCitationWarningRef,
    toasts,                     \* notices shown by addToast, in order
    failures,                   \* history: the recoverable compile failures, in order
    lastEdit,                   \* history: the latest user edit
    submitted                   \* history: handleAutoRender invocations by the timer

\* the scroll sync controller
VARIABLES
    editorScrollTop,            \* scroll position of the editor viewport, px
    previewScrollTop,           \* scroll position of the preview viewport, px
    programmaticScroll,         \* the programmatic-scroll guard
    scrollEvents,               \* scroll events not yet delivered to their listener
    scrollTimers,               \* pending timeouts of the controller
    userScrolls,                \* history: number of user scrolls so far
    scrollLog                   \* history: user scrolls and sync decisions, in order

scrollVars == <<editorScrollTop, previewScrollTop, programmaticScroll, scrollEvents,
                scrollTimers, userScrolls, scrollLog>>

\* the anchor offset resolver
VARIABLES
    resolverPhase,              \* "idle", "polling" or "committed"
    pollAttempts,               \* resolution attempts made in this resolution
    pollStart,                  \* when this resolution started, ms
    pollTimer,                  \* due time of the next retry, None = no timeout pending
    pageMetrics,                \* the renderer's page metrics: "provisional" or "stable"
    bestTable,                  \* anchors resolved by the best attempt so far
    offsetTable,                \* the committed AnchorOffsetTable, None = none yet
    obtained,                   \* history: the tables this resolution's attempts got
    resolutions                 \* history: resolutions started so far

resolverVars == <<resolverPhase, pollAttempts, pollStart, pollTimer, pageMetrics,
                  bestTable, offsetTable, obtained, resolutions>>

\* one useDebouncedCallback instance
VARIABLES
    timeoutRef,                 \* id of the last timeout set, 0 = null
    argsRef,                    \* arguments of the pending call, None = null
    debounceTimers,             \* pending setTimeout callbacks of the hook
    debouncedCalls,             \* history: number of debounced(args) calls so far
    invoked,                    \* history: invocations of the callback, in order
    cancelled,                  \* history: arguments that were pending at a cancel()
    lastOp                      \* history: the operation that ran last

debounceVars == <<timeoutRef, argsRef, debounceTimers, debouncedCalls, invoked,
                  cancelled, lastOp>>

\* one call of sanitizeFilePath
VARIABLES
    path,                       \* the argument
    sanitized                   \* the result, None = not called yet

sanitizeVars == <<path, sanitized>>

\* the PerformanceMonitor singleton
VARIABLES
    metrics,                    \* label -> retained samples
    recorded,                   \* history: label -> samples recorded since the last clear
    running                     \* measureAsync and start() measurements not yet ended

perfVars == <<metrics, recorded, running>>

\* the batch export modal: its file list
VARIABLES
    batchExportModalOpen,       \* store: uiStore.batchExportModalOpen
    files,                      \* useState: the list of file ids, in order
    nextFileId,                 \* the id the next file added gets
    fileDialog,                 \* files.length a pending handleFileSelect closed
                                \* over, None = no file dialog open
    listOps,                    \* history: additions, removals and reorderings so far
    lastListOp                  \* history: the last operation on the list

batchVars == <<batchExportModalOpen, files, nextFileId, fileDialog, listOps, lastListOp>>

\* the batch export modal: handleExport
VARIABLES
    isExporting,                \* useState
    outputFormat,               \* useState: "separate" or "merged"
    exports,                    \* every handleExport call so far, in call order
    persistedPrefs              \* the preferences the backend has persisted

exportVars == <<isExporting, outputFormat, exports, persistedPrefs>>

\* the settings modal
VARIABLES
    settingsModalOpen,          \* store: uiStore.settingsModalOpen
    preferences,                \* store: preferencesStore.preferences
    local,                      \* useState
    dirty,                      \* useState
    autoApply,                  \* useState
    originalRef,
    hasBeenOpenRef,
    openedWith,                 \* history: the stored preferences at the last opening
    lastClick                   \* history: the control used last

settingsVars == <<settingsModalOpen, preferences, local, dirty, autoApply, originalRef,
                  hasBeenOpenRef, openedWith, lastClick>>

utilVars == <<debounceVars, sanitizeVars, perfVars>>
modalVars == <<batchVars, exportVars, settingsVars>>

auxVars == <<scrollVars, resolverVars, utilVars, modalVars>>

\* what the actions of one component leave alone
scrollFrame == <<resolverVars, utilVars, modalVars>>
resolverFrame == <<scrollVars, utilVars, modalVars>>
debounceFrame == <<scrollVars, resolverVars, sanitizeVars, perfVars, modalVars>>
sanitizeFrame == <<scrollVars, resolverVars, debounceVars, perfVars, modalVars>>
perfFrame == <<scrollVars, resolverVars, debounceVars, sanitizeVars, modalVars>>
batchFrame == <<scrollVars, resolverVars, utilVars, settingsVars>>
settingsFrame == <<scrollVars, resolverVars, utilVars, batchVars, exportVars>>

clockVars == <<now, renderDebounceMs>>
docVars == <<doc, content, modified>>
typingVars == <<isTyping, isUserTypingRef>>
timerVars == <<timers, contentChangeTimeoutRef, typingDetectionTimeoutRef,
               contentChangeAbortRef, lastEdit>>
sessionVars == <<mounted, aborted>>
coalescerVars == <<autoRenderInFlightRef, pendingRenderRef, calls, compileStatus>>
previewVars == <<sourceMap, syncMode>>
noticeVars == <<lastCitationWarningRef, toasts, failures>>

coreVars == <<clockVars, docVars, typingVars, timerVars, sessionVars, coalescerVars,
              previewVars, noticeVars, submitted>>

vars == <<coreVars, auxVars>>

\* ------------------------------------------------------------ the compiler
\* renderTypst(content, 'pdf', currentFile) resolves to a document
CompiledDocument(id, text) ==
    [sourceMap |-> [generation |-> id, source |-> text], pdfPath |-> id]

\* String(err) of what renderTypst throws, as the pieces the pattern looks at
\* (the key stands between backquotes)
CitationMsg(k) == <<"key ", k, " does not exist in the bibliography">>
OtherMsg == <<"syntax error">>
ErrorMsgs == {CitationMsg(k) : k \in Keys} \cup {OtherMsg}

parseCitationError(errorMsg) ==
    IF /\ Len(errorMsg) = 3
       /\ errorMsg[1] = "key "
       /\ errorMsg[2] # ""
       /\ errorMsg[3] = " does not exist in the bibliography"
    THEN Some(errorMsg[2])
    ELSE None

\* ------------------------------------------------------ compile status
StatusIdle == [status |-> "idle", pdf_path |-> None, source_map |-> None,
               message |-> None, details |-> None]
StatusRunning == [StatusIdle EXCEPT !.status = "running"]
StatusOk(document) ==
    [StatusIdle EXCEPT !.status = "ok", !.pdf_path = Some(document.pdfPath),
                       !.source_map = Some(document.sourceMap)]
StatusError(errorMsg) ==
    [StatusIdle EXCEPT !.status = "error", !.message = Some("Auto-render failed"),
                       !.details = Some(errorMsg)]

\* what PDFViewer puts into the preview pane (pdfError: pdf.js failed to load)
PDFViewer(status, pdfError) ==
    IF status.status = "error" THEN "error-message"
    ELSE IF pdfError THEN "pdf-load-failed"
    ELSE IF status.status = "ok" /\ status.pdf_path # None THEN "pdfjs-scroll-container"
    ELSE "no-pdf-message"

\* ------------------------------------------------------ handleAutoRender
\* The state a handleAutoRender task works on.
Coalescer ==
    [inFlight |-> autoRenderInFlightRef, pending |-> pendingRenderRef,
     calls |-> calls, status |-> compileStatus]

\* mutant: the abort checks are left out
Signalled_Never(signal) == FALSE

\* signal?.aborted (signal 0: the call was given no signal)
Signalled(signal) == signal # 0 /\ signal \in aborted

\* lines 226-230: take the in-flight flag and call the compiler
StartCompile(c, text, signal) ==
    [c EXCEPT !.inFlight = TRUE,
              !.status = StatusRunning,
              !.calls = Append(c.calls, [text |-> text, signal |-> signal,
                                         phase |-> "compiling", result |-> None])]

RECURSIVE handleAutoRender(_, _, _)
RECURSIVE Finally(_, _)

\* lines 295-304: the finally block; it runs on every way out of the try block,
\* the early returns of lines 218 and 224 included
Finally(c, signal) ==
    LET pending == c.pending
        c1 == [c EXCEPT !.inFlight = FALSE, !.pending = None]
    IN  IF Truthy(pending) /\ ~Signalled(signal)
        THEN handleAutoRender(c1, pending[1], signal)
        ELSE c1

\* lines 214-230: from the call to the first await
handleAutoRender(c, text, signal) ==
    IF Signalled(signal) THEN Finally(c, signal)
    ELSE IF c.inFlight THEN Finally([c EXCEPT !.pending = Some(text)], signal)
    ELSE StartCompile(c, text, signal)

Publish(c) ==
    /\ autoRenderInFlightRef' = c.inFlight
    /\ pendingRenderRef' = c.pending
    /\ calls' = c.calls
    /\ compileStatus' = c.status

Compiling == {i \in DOMAIN calls : calls[i].phase = "compiling"}
Cleaning == {i \in DOMAIN calls : calls[i].phase = "cleaning"}

\* ------------------------------------------------------------------- Init
\* both viewports at the top, nothing scrolled yet
ScrollInit ==
    /\ editorScrollTop = 0
    /\ previewScrollTop = 0
    /\ programmaticScroll = FALSE
    /\ scrollEvents = {}
    /\ scrollTimers = {}
    /\ userScrolls = 0
    /\ scrollLog = <<>>

\* no resolution started
ResolverInit ==
    /\ resolverPhase = "idle"
    /\ pollAttempts = 0
    /\ pollStart = 0
    /\ pollTimer = None
    /\ pageMetrics = "provisional"
    /\ bestTable = {}
    /\ offsetTable = None
    /\ obtained = {}
    /\ resolutions = 0

\* useDebouncedCallback: the refs as created by useRef
DebounceInit ==
    /\ timeoutRef = 0
    /\ argsRef = None
    /\ debounceTimers = {}
    /\ debouncedCalls = 0
    /\ invoked = <<>>
    /\ cancelled = {}
    /\ lastOp = "none"

\* sanitizeFilePath not called
SanitizeIdle ==
    /\ path = <<>>
    /\ sanitized = None

\* the labels measured
Labels == {"pdf-render", "api-call"}

\* new PerformanceMonitor(): an empty Map
PerfInit ==
    /\ metrics = [l \in Labels |-> [present |-> FALSE, values |-> <<>>]]
    /\ recorded = [l \in Labels |-> <<>>]
    /\ running = {}

\* the preferences: the fields of Preferences the models tell apart
PaperSizes == {"a4", "us-letter"}
Margins == {"2cm", "1in"}
PreferencesValues == [papersize : PaperSizes, toc : BOOLEAN, margin : [x : Margins]]
defaultPreferences == [papersize |-> "a4", toc |-> FALSE, margin |-> [x |-> "2cm"]]

\* BatchExportModal mounted: the useState initial values, modal closed
BatchInit ==
    /\ batchExportModalOpen = FALSE
    /\ files = <<>>
    /\ nextFileId = 1
    /\ fileDialog = None
    /\ listOps = 0
    /\ lastListOp = [op |-> "none", index |-> 0, offered |-> 0]
    /\ isExporting = FALSE
    /\ outputFormat = "separate"
    /\ exports = <<>>
    /\ persistedPrefs = "user"

\* SettingsModal mounted: the useState and useRef initial values, modal closed
SettingsInit ==
    /\ settingsModalOpen = FALSE
    /\ preferences = defaultPreferences
    /\ local = defaultPreferences
    /\ dirty = FALSE
    /\ autoApply = TRUE
    /\ originalRef = defaultPreferences
    /\ hasBeenOpenRef = FALSE
    /\ openedWith = defaultPreferences
    /\ lastClick = [op |-> "none", before |-> defaultPreferences]

ModalInit == BatchInit /\ SettingsInit

AuxInit ==
    ScrollInit /\ ResolverInit /\ DebounceInit /\ SanitizeIdle /\ PerfInit /\ ModalInit

Init ==
    /\ now = 0
    /\ renderDebounceMs \in RenderDelays
    /\ mounted = TRUE
    /\ doc = ""
    /\ content = ""
    /\ modified = FALSE
    /\ isTyping = FALSE
    /\ isUserTypingRef = FALSE
    /\ timers = {}
    /\ contentChangeTimeoutRef = 0
    /\ typingDetectionTimeoutRef = 0
    /\ contentChangeAbortRef = 0
    /\ aborted = {}
    /\ autoRenderInFlightRef = FALSE
    /\ pendingRenderRef = None
    /\ calls = <<>>
    /\ compileStatus = StatusIdle
    /\ sourceMap = None
    /\ syncMode = "awaitingFirstRender"
    /\ lastCitationWarningRef = None
    /\ toasts = <<>>
    /\ failures = <<>>
    /\ lastEdit = None
    /\ submitted = <<>>
    /\ AuxInit

\* ------------------------------------------------------- the edit listener
clearTimeout_Noop(pending, kind, id) == pending

\* clearTimeout(id): the timeout with this id does not run any more
clearTimeout(pending, kind, id) ==
    {tm \in pending : ~(tm.kind = kind /\ tm.id = id)}

\* mutant: the render timeout of the previous edit is not cleared
ClearExistingTimeouts_TypingOnly(pending) ==
    clearTimeout(pending, "typing", typingDetectionTimeoutRef)

\* mutant: the typing timeout of the previous edit is not cleared
ClearExistingTimeouts_RenderOnly(pending) ==
    clearTimeout(pending, "render", contentChangeTimeoutRef)

\* lines 499-505: clear existing timeouts
ClearExistingTimeouts(pending) ==
    clearTimeout(clearTimeout(pending, "render", contentChangeTimeoutRef),
                 "typing", typingDetectionTimeoutRef)

\* lines 507-510: the typing detection timeout
TypingTimeout(id) ==
    [kind |-> "typing", id |-> id, due |-> now + TYPING_IDLE_THRESHOLD_MS, text |-> ""]

\* lines 512-519: the trailing render timeout, closing over newContent
RenderTimeout(id, newContent) ==
    [kind |-> "render", id |-> id, due |-> now + renderDebounceMs, text |-> newContent]

\* updateListener, docChanged by a user transaction (lines 486-519)
UserEdit(newContent) ==
    /\ mounted
    /\ contentChangeAbortRef < MaxEdits
    /\ LET id == contentChangeAbortRef + 1
       IN  /\ doc' = newContent
           /\ isUserTypingRef' = TRUE
           /\ isTyping' = TRUE
           /\ content' = newContent
           /\ modified' = TRUE
           /\ timers' = ClearExistingTimeouts(timers)
                           \cup {TypingTimeout(id), RenderTimeout(id, newContent)}
           /\ typingDetectionTimeoutRef' = id
           /\ contentChangeAbortRef' = id
           /\ contentChangeTimeoutRef' = id
           /\ lastEdit' = Some([id |-> id, text |-> newContent])
    /\ UNCHANGED <<auxVars, clockVars, sessionVars, coalescerVars, previewVars, noticeVars,
                   submitted>>

\* mutant: the annotation is not looked at before the document is marked modified
ProgrammaticUpdate_MarksModified(newContent) ==
    /\ mounted
    /\ newContent # doc
    /\ doc' = newContent
    /\ content' = newContent
    /\ modified' = TRUE
    /\ UNCHANGED <<auxVars, clockVars, typingVars, timerVars, sessionVars,
                   coalescerVars, previewVars, noticeVars, submitted>>

\* updateListener, docChanged by a transaction carrying
\* programmaticUpdateAnnotation (lines 468-484)
ProgrammaticUpdate(newContent) ==
    /\ mounted
    /\ newContent # doc
    /\ doc' = newContent
    /\ content' = newContent
    /\ UNCHANGED <<auxVars, clockVars, modified, typingVars, timerVars, sessionVars,
                   coalescerVars, previewVars, noticeVars, submitted>>

\* the typing detection timeout fires (lines 508-510)
TypingTimerFires ==
    \E tm \in timers :
        /\ tm.kind = "typing"
        /\ tm.due <= now
        /\ timers' = timers \ {tm}
        /\ isTyping' = FALSE
        /\ UNCHANGED <<auxVars, clockVars, docVars, isUserTypingRef, contentChangeTimeoutRef,
                       typingDetectionTimeoutRef, contentChangeAbortRef, lastEdit,
                       sessionVars, coalescerVars, previewVars, noticeVars, submitted>>

\* the render timeout fires (lines 516-519)
RenderTimerFires ==
    \E tm \in timers :
        /\ tm.kind = "render"
        /\ tm.due <= now
        /\ timers' = timers \ {tm}
        /\ LET c == handleAutoRender(Coalescer, tm.text, tm.id)
           IN  /\ Publish(c)
               /\ submitted' = Append(submitted,
                      [text |-> tm.text, edit |-> tm.id,
                       started |-> IF Len(c.calls) > Len(calls) THEN Len(c.calls) ELSE 0])
        /\ isUserTypingRef' = FALSE
        /\ UNCHANGED <<auxVars, clockVars, docVars, isTyping, contentChangeTimeoutRef,
                       typingDetectionTimeoutRef, contentChangeAbortRef, lastEdit,
                       sessionVars, previewVars, noticeVars>>

\* the effect's cleanup function (lines 558-585)
Teardown ==
    /\ mounted
    /\ mounted' = FALSE
    /\ timers' = clearTimeout(clearTimeout(timers, "render", contentChangeTimeoutRef),
                              "typing", typingDetectionTimeoutRef)
    /\ aborted' = IF contentChangeAbortRef # 0
                  THEN aborted \cup {contentChangeAbortRef} ELSE aborted
    /\ UNCHANGED <<auxVars, clockVars, docVars, typingVars, contentChangeTimeoutRef,
                   typingDetectionTimeoutRef, contentChangeAbortRef, lastEdit,
                   coalescerVars, previewVars, noticeVars, submitted>>

\* time passes; a timeout fires when it is due
Tick ==
    /\ now + TickMs <= MaxTime
    /\ \A tm \in timers : tm.due > now
    /\ now' = now + TickMs
    /\ UNCHANGED <<auxVars, renderDebounceMs, docVars, typingVars, timerVars, sessionVars,
                   coalescerVars, previewVars, noticeVars, submitted>>

\* ------------------------------------ handleAutoRender after the compile
\* the sourceMap the listener's handleAutoRender closed over at creation
closureSourceMap == None

\* what renderTypst settled with: Resolved, or the error message it threw
Resolved == <<"ok">>
Settle(c, i, phase, result) ==
    [c EXCEPT !.calls[i].phase = phase, !.calls[i].result = result]

\* mutant: the test of line 244 is inverted
SyncModeAfterRender_Inverted(wasSourceMapNull, mode) ==
    IF ~wasSourceMapNull THEN "auto" ELSE mode

\* lines 243-246: the first render that sets sourceMap enables auto-sync
SyncModeAfterRender(wasSourceMapNull, mode) ==
    IF wasSourceMapNull THEN "auto" ELSE mode

\* renderTypst resolves (lines 230-250), up to the await of cleanupTempPdfs
CompileReturns(i) ==
    /\ i \in Compiling
    /\ LET signal == calls[i].signal
           document == CompiledDocument(i, calls[i].text)
           wasSourceMapNull == closureSourceMap = None
       IN  IF Signalled(signal)
           THEN /\ Publish(Finally(Settle(Coalescer, i, "done", Resolved), signal))
                /\ UNCHANGED previewVars
           ELSE /\ sourceMap' = Some(document.sourceMap)
                /\ Publish(Settle([Coalescer EXCEPT !.status = StatusOk(document)],
                                  i, "cleaning", Resolved))
                /\ syncMode' = SyncModeAfterRender(wasSourceMapNull, syncMode)
    /\ UNCHANGED <<auxVars, clockVars, docVars, typingVars, timerVars, sessionVars, noticeVars,
                   submitted>>

\* cleanupTempPdfs resolves or rejects (lines 249-254), then the finally block
CleanupSettles(i) ==
    /\ i \in Cleaning
    /\ Publish(Finally([Coalescer EXCEPT !.calls[i].phase = "done"], calls[i].signal))
    /\ UNCHANGED <<auxVars, clockVars, docVars, typingVars, timerVars, sessionVars, previewVars,
                   noticeVars, submitted>>

\* mutant: the window is compared in seconds against a difference in ms
ShouldShowWarning_Seconds(lastWarning, missingCitationKey, t) ==
    \/ lastWarning = None
    \/ lastWarning[1].key # missingCitationKey
    \/ t - lastWarning[1].timestamp > CITATION_WARNING_WINDOW_MS \div 1000

\* mutant: no rate limit at all
ShouldShowWarning_Always(lastWarning, missingCitationKey, t) == TRUE

\* lines 266-272
ShouldShowWarning(lastWarning, missingCitationKey, t) ==
    \/ lastWarning = None
    \/ lastWarning[1].key # missingCitationKey
    \/ t - lastWarning[1].timestamp > CITATION_WARNING_WINDOW_MS

\* lines 264-285: a missing citation key
CitationWarning(missingCitationKey) ==
    /\ IF ShouldShowWarning(lastCitationWarningRef, missingCitationKey, now)
       THEN /\ lastCitationWarningRef' =
                   Some([key |-> missingCitationKey, timestamp |-> now])
            /\ toasts' = Append(toasts, [key |-> missingCitationKey, at |-> now])
       ELSE UNCHANGED <<lastCitationWarningRef, toasts>>
    /\ failures' = Append(failures, [key |-> missingCitationKey, at |-> now,
                                     shown |-> Len(toasts') > Len(toasts)])

\* mutant: the error status is set but the SourceMap is kept
BlockingError_KeepsSourceMap(c, errorMsg) ==
    [coalescer |-> [c EXCEPT !.status = StatusError(errorMsg)], sourceMap |-> sourceMap]

\* lines 286-294: any other error
BlockingError(c, errorMsg) ==
    [coalescer |-> [c EXCEPT !.status = StatusError(errorMsg)], sourceMap |-> None]

\* renderTypst rejects (lines 255-294), then the finally block
CompileThrows(i, errorMsg) ==
    /\ i \in Compiling
    /\ LET signal == calls[i].signal
           missingCitationKey == parseCitationError(errorMsg)
       IN  IF Signalled(signal)
           THEN /\ Publish(Finally(Settle(Coalescer, i, "done", errorMsg), signal))
                /\ UNCHANGED <<sourceMap, noticeVars>>
           ELSE IF missingCitationKey # None
           THEN /\ CitationWarning(missingCitationKey[1])
                /\ Publish(Finally(Settle(Coalescer, i, "done", errorMsg), signal))
                /\ UNCHANGED sourceMap
           ELSE LET e == BlockingError(Coalescer, errorMsg)
                IN  /\ sourceMap' = e.sourceMap
                    /\ Publish(Finally(Settle(e.coalescer, i, "done", errorMsg), signal))
                    /\ UNCHANGED noticeVars
    /\ UNCHANGED <<auxVars, clockVars, docVars, typingVars, timerVars, sessionVars, syncMode,
                   submitted>>

\* ------------------------------------------------------------------- Next
Next ==
    \/ \E t \in Texts : UserEdit(t)
    \/ \E t \in Texts : ProgrammaticUpdate(t)
    \/ TypingTimerFires
    \/ RenderTimerFires
    \/ Teardown
    \/ Tick
    \/ \E i \in DOMAIN calls : CompileReturns(i)
    \/ \E i \in DOMAIN calls : CleanupSettles(i)
    \/ \E i \in DOMAIN calls, m \in ErrorMsgs : CompileThrows(i, m)

Spec == Init /\ [][Next]_vars

TypeOK ==
    /\ now \in 0..MaxTime
    /\ autoRenderInFlightRef \in BOOLEAN
    /\ contentChangeAbortRef <= MaxEdits

\* ==================================================== scroll sync controller
\* The controller's hooks (useEditorToPdfSync, usePdfToEditorSync, scrollGuards)
\* are described by section 4.4 of the design; the timing values are those of
\* constants/timing.ts.
SCROLL_DEBOUNCE_MS == 50
PROGRAMMATIC_SCROLL_CLEAR_MS == 60
SCROLL_NO_MOVEMENT_THRESHOLD_PX == 2
MIN_OFFSET_FROM_TOP_PX == 8

MaxScrolls == 2
MaxScrollTicks == 17

\* the controller's clock: the finest step that separates its two delays
ScrollTickMs == PROGRAMMATIC_SCROLL_CLEAR_MS - SCROLL_DEBOUNCE_MS
ScrollStart == 2 * TickMs
MaxScrollTime == ScrollStart + MaxScrollTicks * ScrollTickMs

\* the positions the user scrolls a viewport to
EditorPositions == {0, 41, 45, 80}
PreviewPositions == {0, 40, 60}

\* the anchors of the published SourceMap with their resolved pixel offsets; the
\* offsets of a2 and a3 are one pixel apart
Anchors ==
    { [id |-> "a1", editorTop |-> 0, offset |-> 8],
      [id |-> "a2", editorTop |-> 40, offset |-> 48],
      [id |-> "a3", editorTop |-> 80, offset |-> 49] }

\* the AnchorOffsetTable: empty before the first successful compile
AnchorOffsetTable == IF sourceMap = None THEN {} ELSE Anchors

Dist(a, b) == IF a >= b THEN a - b ELSE b - a
Max0(x) == IF x < 0 THEN 0 ELSE x

\* editor -> preview: the anchor closest to the top of the editor's visible range
AnchorForEditor(table, top) ==
    CHOOSE a \in table :
        \A b \in table :
            \/ Dist(a.editorTop, top) < Dist(b.editorTop, top)
            \/ /\ Dist(a.editorTop, top) = Dist(b.editorTop, top)
               /\ a.editorTop <= b.editorTop

\* preview -> editor: the nearest anchor below or at the top of the preview's
\* viewport, falling back to the nearest overall
AnchorForPreview(table, top) ==
    LET ref == top + MIN_OFFSET_FROM_TOP_PX
        below == {a \in table : a.offset <= ref}
    IN  IF below # {}
        THEN CHOOSE a \in below : \A b \in below : b.offset <= a.offset
        ELSE CHOOSE a \in table :
                 \A b \in table :
                     \/ Dist(a.offset, ref) < Dist(b.offset, ref)
                     \/ /\ Dist(a.offset, ref) = Dist(b.offset, ref)
                        /\ a.offset <= b.offset

\* the preview position that shows an anchor: its offset minus the top margin
PreviewTarget(a) == Max0(a.offset - MIN_OFFSET_FROM_TOP_PX)
EditorTarget(a) == a.editorTop

\* mutant: every computed target is applied
ShouldScroll_Always(target, current) == TRUE

\* a move smaller than the tolerance is skipped
ShouldScroll(target, current) ==
    Dist(target, current) >= SCROLL_NO_MOVEMENT_THRESHOLD_PX

\* mutant: the guard is not consulted
IgnoreScrollEvent_Never(guard) == FALSE

\* a scroll event that arrives while the guard is set is the controller's own
IgnoreScrollEvent(guard) == guard

\* mutant: typing does not suppress anything
SuppressEditorCorrection_Never(typing) == FALSE

\* while the user types, preview -> editor corrections are suppressed
SuppressEditorCorrection(typing) == typing

Counterpart(viewport) == IF viewport = "editor" THEN "preview" ELSE "editor"
ScrollTop(viewport) == IF viewport = "editor" THEN editorScrollTop ELSE previewScrollTop

ClearGuardTimeout == [kind |-> "clearGuard", due |-> now + PROGRAMMATIC_SCROLL_CLEAR_MS,
                      cause |-> 0]
SettleTimeout(cause) == [kind |-> "settle", due |-> now + SCROLL_DEBOUNCE_MS,
                         cause |-> cause]

\* the decision for one computed target: apply it under the guard, or skip it
Correct(viewport, target, cause, pendingTimers, pendingEvents) ==
    LET current == ScrollTop(viewport)
        apply == ShouldScroll(target, current)
    IN  /\ scrollLog' = Append(scrollLog,
               [viewport |-> viewport, by |-> "sync", cause |-> cause,
                from |-> current, to |-> target, applied |-> apply,
                typing |-> isTyping])
        /\ IF apply
           THEN /\ programmaticScroll' = TRUE
                /\ editorScrollTop' = IF viewport = "editor" THEN target
                                      ELSE editorScrollTop
                /\ previewScrollTop' = IF viewport = "preview" THEN target
                                       ELSE previewScrollTop
                /\ scrollEvents' = pendingEvents \cup
                       {[viewport |-> viewport, by |-> "sync", cause |-> cause]}
                /\ scrollTimers' = pendingTimers \cup {ClearGuardTimeout}
           ELSE /\ scrollEvents' = pendingEvents
                /\ scrollTimers' = pendingTimers
                /\ UNCHANGED <<programmaticScroll, editorScrollTop, previewScrollTop>>

\* the user scrolls a viewport (wheel, scrollbar, keys)
UserScroll(viewport, top) ==
    /\ userScrolls < MaxScrolls
    /\ top # ScrollTop(viewport)
    /\ userScrolls' = userScrolls + 1
    /\ editorScrollTop' = IF viewport = "editor" THEN top ELSE editorScrollTop
    /\ previewScrollTop' = IF viewport = "preview" THEN top ELSE previewScrollTop
    /\ scrollEvents' = scrollEvents \cup
           {[viewport |-> viewport, by |-> "user", cause |-> userScrolls']}
    /\ scrollLog' = Append(scrollLog,
           [viewport |-> viewport, by |-> "user", cause |-> userScrolls',
            from |-> ScrollTop(viewport), to |-> top, applied |-> TRUE,
            typing |-> isTyping])
    /\ UNCHANGED <<coreVars, scrollFrame, programmaticScroll, scrollTimers>>

\* a scroll event of the editor is delivered: (re)start the settle delay
EditorScrollEvent ==
    \E ev \in scrollEvents :
        /\ ev.viewport = "editor"
        /\ scrollEvents' = scrollEvents \ {ev}
        /\ scrollTimers' =
               IF IgnoreScrollEvent(programmaticScroll) THEN scrollTimers
               ELSE {tm \in scrollTimers : tm.kind # "settle"}
                        \cup {SettleTimeout(ev.cause)}
        /\ UNCHANGED <<coreVars, scrollFrame, editorScrollTop, previewScrollTop, programmaticScroll,
                       userScrolls, scrollLog>>

\* the editor scroll has settled: align the preview
EditorScrollSettles ==
    \E tm \in scrollTimers :
        /\ tm.kind = "settle"
        /\ tm.due <= now
        /\ IF AnchorOffsetTable = {}
           THEN /\ syncMode' = "manual"
                /\ scrollTimers' = scrollTimers \ {tm}
                /\ UNCHANGED <<editorScrollTop, previewScrollTop, programmaticScroll,
                               scrollEvents, scrollLog>>
           ELSE /\ Correct("preview",
                           PreviewTarget(AnchorForEditor(AnchorOffsetTable,
                                                         editorScrollTop)),
                           tm.cause, scrollTimers \ {tm}, scrollEvents)
                /\ UNCHANGED syncMode
        /\ UNCHANGED <<scrollFrame, clockVars, docVars, typingVars, timerVars, sessionVars,
                       coalescerVars, sourceMap, noticeVars, submitted, userScrolls>>

\* a scroll event of the preview is delivered: align the editor
PreviewScrollEvent ==
    \E ev \in scrollEvents :
        /\ ev.viewport = "preview"
        /\ IF IgnoreScrollEvent(programmaticScroll)
           THEN /\ scrollEvents' = scrollEvents \ {ev}
                /\ UNCHANGED <<syncMode, editorScrollTop, previewScrollTop,
                               programmaticScroll, scrollTimers, scrollLog>>
           ELSE IF AnchorOffsetTable = {}
           THEN /\ syncMode' = "manual"
                /\ scrollEvents' = scrollEvents \ {ev}
                /\ UNCHANGED <<editorScrollTop, previewScrollTop, programmaticScroll,
                               scrollTimers, scrollLog>>
           ELSE IF SuppressEditorCorrection(isTyping)
           THEN /\ scrollEvents' = scrollEvents \ {ev}
                /\ UNCHANGED <<syncMode, editorScrollTop, previewScrollTop,
                               programmaticScroll, scrollTimers, scrollLog>>
           ELSE /\ Correct("editor",
                           EditorTarget(AnchorForPreview(AnchorOffsetTable,
                                                         previewScrollTop)),
                           ev.cause, scrollTimers, scrollEvents \ {ev})
                /\ UNCHANGED syncMode
        /\ UNCHANGED <<scrollFrame, clockVars, docVars, typingVars, timerVars, sessionVars,
                       coalescerVars, sourceMap, noticeVars, submitted, userScrolls>>

\* the guard is cleared a short delay after the scroll was applied
ClearGuard ==
    \E tm \in scrollTimers :
        /\ tm.kind = "clearGuard"
        /\ tm.due <= now
        /\ scrollTimers' = scrollTimers \ {tm}
        /\ programmaticScroll' = FALSE
        /\ UNCHANGED <<coreVars, scrollFrame, editorScrollTop, previewScrollTop, scrollEvents,
                       userScrolls, scrollLog>>

\* time passes; scroll events are delivered and timeouts fire when they are due
ScrollTick ==
    /\ now + ScrollTickMs <= MaxScrollTime
    /\ scrollEvents = {}
    /\ \A tm \in scrollTimers : tm.due > now
    /\ \A tm \in timers : tm.due > now + ScrollTickMs
    /\ now' = now + ScrollTickMs
    /\ UNCHANGED <<scrollFrame, renderDebounceMs, docVars, typingVars, timerVars, sessionVars,
                   coalescerVars, previewVars, noticeVars, submitted, scrollVars>>

\* the editor after its first render: the user typed "a", the text was compiled
\* and published, and the typing timeout has fired
RenderedInit ==
    /\ AuxInit
    /\ now = ScrollStart
    /\ renderDebounceMs = RENDER_DEBOUNCE_DEFAULT_MS
    /\ mounted = TRUE
    /\ doc = "a"
    /\ content = "a"
    /\ modified = TRUE
    /\ isTyping = FALSE
    /\ isUserTypingRef = FALSE
    /\ timers = {}
    /\ contentChangeTimeoutRef = 1
    /\ typingDetectionTimeoutRef = 1
    /\ contentChangeAbortRef = 1
    /\ aborted = {}
    /\ autoRenderInFlightRef = FALSE
    /\ pendingRenderRef = None
    /\ calls = <<[text |-> "a", signal |-> 1, phase |-> "done", result |-> Resolved]>>
    /\ compileStatus = StatusOk(CompiledDocument(1, "a"))
    /\ sourceMap = Some(CompiledDocument(1, "a").sourceMap)
    /\ syncMode = "auto"
    /\ lastCitationWarningRef = None
    /\ toasts = <<>>
    /\ failures = <<>>
    /\ lastEdit = Some([id |-> 1, text |-> "a"])
    /\ submitted = <<[text |-> "a", edit |-> 1, started |-> 1]>>

\* the editor before its first render, the same time after mounting
UnrenderedCore ==
    /\ now = ScrollStart
    /\ renderDebounceMs = RENDER_DEBOUNCE_DEFAULT_MS
    /\ mounted = TRUE
    /\ doc = ""
    /\ content = ""
    /\ modified = FALSE
    /\ isTyping = FALSE
    /\ isUserTypingRef = FALSE
    /\ timers = {}
    /\ contentChangeTimeoutRef = 0
    /\ typingDetectionTimeoutRef = 0
    /\ contentChangeAbortRef = 0
    /\ aborted = {}
    /\ autoRenderInFlightRef = FALSE
    /\ pendingRenderRef = None
    /\ calls = <<>>
    /\ compileStatus = StatusIdle
    /\ sourceMap = None
    /\ syncMode = "awaitingFirstRender"
    /\ lastCitationWarningRef = None
    /\ toasts = <<>>
    /\ failures = <<>>
    /\ lastEdit = None
    /\ submitted = <<>>

UnrenderedInit == UnrenderedCore /\ AuxInit

ScrollSpecInit == RenderedInit \/ UnrenderedInit

\* the user types one more change while scrolling
ScrollEdit == contentChangeAbortRef < 2 /\ UserEdit("a")

ScrollNext ==
    \/ \E top \in EditorPositions : UserScroll("editor", top)
    \/ \E top \in PreviewPositions : UserScroll("preview", top)
    \/ EditorScrollEvent
    \/ EditorScrollSettles
    \/ PreviewScrollEvent
    \/ ClearGuard
    \/ ScrollEdit
    \/ ScrollTick

ScrollSpec == ScrollSpecInit /\ [][ScrollNext]_vars

\* =================================================================== claims

\* the last handleAutoRender invocation made by the render timer
LastSubmitted == submitted[Len(submitted)]

\* the submits made since call c was started (c is still in flight: all of them
\* were made during c)
SubmittedDuring(c) == {k \in DOMAIN submitted : submitted[k].edit > calls[c].signal}

\* C1: at most one renderTypst call is outstanding (started and not yet returned
\* or thrown) at any time.
C1_AtMostOneCompileInFlight == Cardinality(Compiling) <= 1

\* C2: of the submits made while one compile is in flight, no superseded
\* (non-latest) one has its text passed to the compiler, and no more than one
\* compile is started for the latest one.
C2_SupersededNeverCompiled ==
    \A c \in Compiling :
        \A k \in SubmittedDuring(c) :
            /\ (\E j \in SubmittedDuring(c) : j > k) => submitted[k].started = 0
            /\ Cardinality({n \in DOMAIN calls : calls[n].signal = submitted[k].edit}) <= 1

\* C3: a submit made while a compile is in flight starts no compile by itself; a
\* compile starts beside an in-flight one only in the step in which that one
\* finishes; and whenever no compile is in flight the pending slot is empty.
C3_PendingStartsAtCompletion ==
    /\ [](Compiling = {} => pendingRenderRef = None)
    /\ [][ /\ (Len(submitted') > Len(submitted) /\ Compiling # {})
                => Len(calls') = Len(calls)
           /\ (Len(calls') > Len(calls) /\ Compiling # {})
                => \E i \in Compiling : calls'[i].phase # "compiling" ]_vars

\* no render timer is pending and no handleAutoRender task is suspended
Quiescent ==
    /\ submitted # <<>>
    /\ \A tm \in timers : tm.kind # "render"
    /\ Compiling = {}
    /\ Cleaning = {}

\* C4: once the submits have stopped and every started compile has completed
\* successfully (no abort), the published SourceMap and the rendered output are
\* those produced from the last submitted text.
C4_LastTextPublished ==
    (/\ Quiescent
     /\ aborted = {}
     /\ \A n \in DOMAIN calls : calls[n].result = Resolved)
    => /\ sourceMap # None
       /\ sourceMap[1].source = LastSubmitted.text
       /\ calls[sourceMap[1].generation].signal = LastSubmitted.edit
       /\ compileStatus.status = "ok"
       /\ compileStatus.source_map = sourceMap
       /\ compileStatus.pdf_path = Some(sourceMap[1].generation)

\* call i rejects in this step, its abort signal not set, with an error that
\* parseCitationError does (recoverable = TRUE) or does not recognise
FailsWith(i, recoverable) ==
    /\ i \in Compiling
    /\ calls'[i].phase = "done"
    /\ calls'[i].result # Resolved
    /\ ~Signalled(calls[i].signal)
    /\ (parseCitationError(calls'[i].result) # None) = recoverable

\* C5: a recoverable failure after an earlier successful compile leaves the
\* SourceMap and the displayed output unchanged: the status the preview sees is
\* still ok with that compile's output path.
C5_RecoverableKeepsOutput ==
    [][ \A i \in DOMAIN calls :
            (FailsWith(i, TRUE) /\ sourceMap # None)
            => /\ sourceMap' = sourceMap
               /\ compileStatus'.status = "ok"
               /\ compileStatus'.source_map = sourceMap
               /\ compileStatus'.pdf_path = Some(sourceMap[1].generation)
               /\ PDFViewer(compileStatus', FALSE) = "pdfjs-scroll-container" ]_vars

SameCause(i, j) == \A m \in i..j : failures[m].key = failures[i].key

\* C6 as stated: no two notices for the same cause are shown within 3 seconds of
\* each other, whatever other causes fail in between.
C6_OncePerCausePerWindow ==
    \A i, j \in DOMAIN toasts :
        (i < j /\ toasts[i].key = toasts[j].key)
        => toasts[j].at - toasts[i].at > CITATION_WARNING_WINDOW_MS

\* C6 amended: two notices for the same cause are shown within 3 seconds of
\* each other only if a notice for another cause was shown between them.
C6_OncePerCauseUnlessInterleaved ==
    \A i, j \in DOMAIN toasts :
        (/\ i < j
         /\ toasts[i].key = toasts[j].key
         /\ toasts[j].at - toasts[i].at <= CITATION_WARNING_WINDOW_MS)
        => \E m \in (i + 1)..(j - 1) : toasts[m].key # toasts[i].key

\* a cause is notified, a repeat within the window is suppressed, and the
\* cause is notified again once the window has passed
C6_Witness ==
    /\ \E i, j \in DOMAIN toasts :
           /\ j = i + 1
           /\ toasts[i].key = toasts[j].key
           /\ toasts[j].at - toasts[i].at > CITATION_WARNING_WINDOW_MS
    /\ \E f \in DOMAIN failures : ~failures[f].shown

\* C7: when compiles fail repeatedly with the same recoverable cause and all the
\* failures fall within the rate-limit window after the first, exactly one notice
\* is shown: the first failure's.
C7_OneNoticePerBurst ==
    \A i, j \in DOMAIN failures :
        (/\ i <= j
         /\ SameCause(i, j)
         /\ failures[j].at - failures[i].at <= CITATION_WARNING_WINDOW_MS)
        => /\ Cardinality({m \in i..j : failures[m].shown}) <= 1
           /\ (i = 1 \/ failures[i - 1].key # failures[i].key) => failures[i].shown

\* three failures of one cause, spread over time within the window, one notice
C7_Witness ==
    /\ Len(failures) = 3
    /\ SameCause(1, 3)
    /\ failures[1].at < failures[2].at
    /\ failures[2].at < failures[3].at
    /\ failures[3].at - failures[1].at <= CITATION_WARNING_WINDOW_MS
    /\ Len(toasts) = 1

\* C8: when a compile fails with an error that is not recoverable (its abort
\* signal not set), the compile status becomes error with a message and the
\* diagnostic detail, the SourceMap is cleared, the preview shows the error panel
\* and the editor content is not modified.
C8_BlockingErrorShown ==
    [][ \A i \in DOMAIN calls :
            FailsWith(i, FALSE)
            => /\ compileStatus'.status = "error"
               /\ compileStatus'.message # None
               /\ compileStatus'.details = Some(calls'[i].result)
               /\ sourceMap' = None
               /\ \A pdfError \in BOOLEAN :
                      PDFViewer(compileStatus', pdfError) = "error-message"
               /\ doc' = doc
               /\ content' = content
               /\ modified' = modified ]_vars

\* a blocking failure after an earlier successful compile
C8_Witness ==
    /\ compileStatus.status = "error"
    /\ compileStatus.details = Some(OtherMsg)
    /\ sourceMap = None
    /\ doc = "a"
    /\ \E i, j \in DOMAIN calls :
           /\ i < j
           /\ calls[i].phase = "done"
           /\ calls[i].result = Resolved
           /\ calls[j].result = OtherMsg

RenderTimeouts(pending) == {tm \in pending : tm.kind = "render"}
TypingTimeouts(pending) == {tm \in pending : tm.kind = "typing"}

\* a user edit happens in this step
EditStep == contentChangeAbortRef' # contentChangeAbortRef

\* C9: after a user edit exactly one render timeout is pending, that edit's, due
\* renderDebounceMs later with that edit's text, so that an edit made before the
\* timeout of the previous one is due takes its place; handleAutoRender is invoked
\* only by the timeout of the latest edit, when it is due, once, with that text;
\* and while the editor is mounted that timeout is not lost.
C9_TrailingDebounce ==
    /\ []((mounted /\ lastEdit # None /\ RenderTimeouts(timers) = {})
            => Cardinality({k \in DOMAIN submitted :
                               submitted[k].edit = lastEdit[1].id}) = 1)
    /\ [][ /\ EditStep
              => /\ RenderTimeouts(timers') =
                        {[kind |-> "render", id |-> contentChangeTimeoutRef',
                          due |-> now + renderDebounceMs, text |-> doc']}
                 /\ submitted' = submitted
           /\ submitted' # submitted
              => \E tm \in RenderTimeouts(timers) :
                    /\ tm.due = now
                    /\ tm.id = lastEdit[1].id
                    /\ tm.text = lastEdit[1].text
                    /\ RenderTimeouts(timers') = {}
                    /\ submitted' = Append(submitted, LastSubmitted')
                    /\ LastSubmitted'.text = tm.text
                    /\ LastSubmitted'.edit = tm.id
                    /\ \A k \in DOMAIN submitted : submitted[k].edit # tm.id ]_vars

\* a burst of three edits, the last one changing the text, rendered once
C9_Witness ==
    /\ contentChangeAbortRef = 3
    /\ Len(submitted) = 1
    /\ submitted[1].edit = 3
    /\ submitted[1].text = ""
    /\ renderDebounceMs > TickMs
    /\ now < 3 * renderDebounceMs

\* C10: a user edit sets isTyping and leaves exactly one typing timeout pending,
\* due a full TYPING_IDLE_THRESHOLD_MS later; isTyping becomes false only when the
\* timeout of the latest edit fires, at its due time; so isTyping is true as long
\* as the last edit is less than TYPING_IDLE_THRESHOLD_MS ago.
C10_TypingUntilIdle ==
    /\ [](TypingTimeouts(timers) # {} => isTyping)
    /\ [][ /\ EditStep
              => /\ isTyping'
                 /\ TypingTimeouts(timers') =
                        {[kind |-> "typing", id |-> typingDetectionTimeoutRef',
                          due |-> now + TYPING_IDLE_THRESHOLD_MS, text |-> ""]}
           /\ (isTyping /\ ~isTyping')
              => /\ ~EditStep
                 /\ \E tm \in TypingTimeouts(timers) :
                        /\ tm.id = typingDetectionTimeoutRef
                        /\ tm.due = now
                        /\ tm \notin timers'
           /\ (TypingTimeouts(timers) # {} /\ TypingTimeouts(timers') = {})
              => (~isTyping' \/ ~mounted') ]_vars

\* the user typed twice with a pause shorter than the threshold, then stopped
C10_Witness ==
    /\ mounted
    /\ contentChangeAbortRef = 2
    /\ ~isTyping
    /\ now = TickMs + TYPING_IDLE_THRESHOLD_MS
    /\ Len(submitted) = 1
    /\ renderDebounceMs > TickMs

\* call i resolves in this step, its abort signal not set, and is published
Succeeds(i) ==
    /\ i \in Compiling
    /\ calls'[i].phase = "cleaning"
    /\ calls'[i].result = Resolved

\* C11: when a compile succeeds and no SourceMap is published at that moment (in
\* particular the first successful compile of the session), the SourceMap is
\* published and SyncMode is set to auto.
C11_FirstRenderEnablesAutoSync ==
    [][ \A i \in DOMAIN calls :
            (Succeeds(i) /\ sourceMap = None)
            => /\ syncMode' = "auto"
               /\ sourceMap' = Some(CompiledDocument(i, calls[i].text).sourceMap) ]_vars

\* the session's first successful compile has just completed, after a failed one
C11_Witness ==
    /\ syncMode = "auto"
    /\ Len(calls) = 2
    /\ calls[1].result = OtherMsg
    /\ calls[2].phase = "cleaning"
    /\ sourceMap # None

\* the abort signal of a call or timer callback has been set
AbortSet(signal) == signal \in aborted

\* call i returns or throws in this step
Settles(i) == i \in Compiling /\ calls'[i].phase # "compiling"

\* C12: a call whose abort signal is set when it is invoked, or when the compiler
\* returns or throws, publishes no SourceMap, sets no compile status, shows no
\* notice, leaves SyncMode alone and starts no follow-up compile; and neither a
\* user edit nor a submit aborts anything: only the teardown does.
C12_AbortIsNotAnError ==
    [][ /\ \A i \in DOMAIN calls :
              (Settles(i) /\ AbortSet(calls[i].signal))
              => /\ calls'[i].phase = "done"
                 /\ sourceMap' = sourceMap
                 /\ compileStatus' = compileStatus
                 /\ syncMode' = syncMode
                 /\ toasts' = toasts
                 /\ lastCitationWarningRef' = lastCitationWarningRef
                 /\ Len(calls') = Len(calls)
        /\ (submitted' # submitted /\ AbortSet(LastSubmitted'.edit))
              => /\ calls' = calls
                 /\ compileStatus' = compileStatus
                 /\ sourceMap' = sourceMap
        /\ (EditStep \/ submitted' # submitted) => aborted' = aborted
        /\ aborted' # aborted => (mounted /\ ~mounted') ]_vars

\* torn down while the compile of the latest edit was in flight; the compiler
\* returned afterwards and nothing was published
C12_Witness ==
    /\ ~mounted
    /\ \E i \in DOMAIN calls :
           /\ AbortSet(calls[i].signal)
           /\ calls[i].phase = "done"
           /\ calls[i].result = Resolved
    /\ sourceMap = None
    /\ compileStatus.status = "running"
    /\ submitted # <<>>
    /\ toasts = <<>>

\* C13: while cleanupTempPdfs has not returned, and when it returns or fails, the
\* compile status and the published SourceMap are those of the successful
\* compile; and a text submitted while only the cleanup is outstanding is
\* compiled: its compile starts at once or the text is kept as pending.
C13_CleanupNeverBlocks ==
    [][ /\ \A i \in Cleaning :
              (calls'[i].phase = "done" /\ Len(calls') = Len(calls))
              => /\ compileStatus' = compileStatus
                 /\ sourceMap' = sourceMap
        /\ (submitted' # submitted /\ Cleaning # {} /\ Compiling = {}
                /\ ~AbortSet(LastSubmitted'.edit))
              => \/ LastSubmitted'.started # 0
                 \/ pendingRenderRef' = Some(LastSubmitted'.text) ]_vars

\* --------------------------------------------------- scroll sync controller
\* the scroll events delivered in this step
Delivered(viewport) == {ev \in scrollEvents \ scrollEvents' : ev.viewport = viewport}

\* the programmatic scrolls applied so far
Corrections == {i \in DOMAIN scrollLog : scrollLog[i].by = "sync" /\ scrollLog[i].applied}

\* a sync decision is taken in this step
Decides ==
    /\ Len(scrollLog') = Len(scrollLog) + 1
    /\ scrollLog'[Len(scrollLog')].by = "sync"

\* C14: a scroll event delivered while the programmatic-scroll guard is set
\* triggers nothing (no scroll, no settle delay); a programmatic scroll sets the
\* guard and schedules its clearing PROGRAMMATIC_SCROLL_CLEAR_MS later, and the
\* guard is never set without a pending clearing; so every programmatic scroll
\* is caused by a user scroll of the other viewport, and a user scroll causes at
\* most one programmatic scroll.
C14_GuardAbsorbsOwnScroll ==
    /\ [](programmaticScroll =>
            \E tm \in scrollTimers :
                /\ tm.kind = "clearGuard"
                /\ tm.due >= now
                /\ tm.due <= now + PROGRAMMATIC_SCROLL_CLEAR_MS)
    /\ [](\A i \in Corrections :
            /\ \E j \in 1..(i - 1) :
                   /\ scrollLog[j].by = "user"
                   /\ scrollLog[j].cause = scrollLog[i].cause
                   /\ scrollLog[j].viewport = Counterpart(scrollLog[i].viewport)
            /\ \A k \in Corrections : k # i => scrollLog[k].cause # scrollLog[i].cause)
    /\ [][ /\ (programmaticScroll /\ Delivered("editor") \cup Delivered("preview") # {})
               => /\ scrollLog' = scrollLog
                  /\ scrollTimers' = scrollTimers
                  /\ editorScrollTop' = editorScrollTop
                  /\ previewScrollTop' = previewScrollTop
           /\ (Decides /\ scrollLog'[Len(scrollLog')].applied)
               => /\ programmaticScroll'
                  /\ [kind |-> "clearGuard", cause |-> 0,
                      due |-> now + PROGRAMMATIC_SCROLL_CLEAR_MS] \in scrollTimers' ]_vars

\* an editor scroll was followed into the preview, the preview's own scroll event
\* was absorbed and the guard has been cleared again
C14_Witness ==
    /\ Len(scrollLog) = 2
    /\ scrollLog[1].by = "user"
    /\ scrollLog[1].viewport = "editor"
    /\ 2 \in Corrections
    /\ scrollEvents = {}
    /\ scrollTimers = {}
    /\ ~programmaticScroll
    /\ now = ScrollStart + SCROLL_DEBOUNCE_MS + PROGRAMMATIC_SCROLL_CLEAR_MS

\* C15: while isTyping is true, the delivery of a preview scroll event leaves
\* the editor's scroll position alone and scrolls nothing, whereas a settled
\* editor scroll still moves the preview to its anchor.
C15_TypingSuppressesEditorCorrection ==
    [][ /\ (isTyping /\ Delivered("preview") # {})
           => /\ editorScrollTop' = editorScrollTop
              /\ scrollLog' = scrollLog
              /\ programmaticScroll' = programmaticScroll
        /\ (isTyping /\ editorScrollTop' # editorScrollTop)
           => userScrolls' = userScrolls + 1
        /\ \A tm \in scrollTimers \ scrollTimers' :
              (/\ isTyping
               /\ tm.kind = "settle"
               /\ Delivered("editor") = {}
               /\ sourceMap # None
               /\ Dist(PreviewTarget(AnchorForEditor(Anchors, editorScrollTop)),
                       previewScrollTop) >= SCROLL_NO_MOVEMENT_THRESHOLD_PX)
              => /\ previewScrollTop' =
                        PreviewTarget(AnchorForEditor(Anchors, editorScrollTop))
                 /\ previewScrollTop' # previewScrollTop ]_vars

\* while the user types: an editor scroll moved the preview, and a later preview
\* scroll, delivered with the guard cleared, moved nothing
C15_Witness ==
    /\ isTyping
    /\ Len(scrollLog) = 3
    /\ scrollLog[1].by = "user" /\ scrollLog[1].viewport = "editor" /\ scrollLog[1].typing
    /\ 2 \in Corrections /\ scrollLog[2].viewport = "preview" /\ scrollLog[2].typing
    /\ scrollLog[3].by = "user" /\ scrollLog[3].viewport = "preview" /\ scrollLog[3].typing
    /\ scrollLog[3].from # scrollLog[3].to
    /\ scrollEvents = {}
    /\ scrollTimers = {}
    /\ ~programmaticScroll
    /\ editorScrollTop = scrollLog[1].to
    /\ EditorTarget(AnchorForPreview(Anchors, previewScrollTop)) # editorScrollTop

\* C16: a computed target is applied exactly when it differs from the
\* viewport's current position by at least the tolerance; a decision that skips
\* the move makes no scroll call: no position changes, no scroll event is
\* raised and the guard is not touched.
C16_BelowToleranceSkipped ==
    /\ [](\A i \in DOMAIN scrollLog :
            scrollLog[i].by = "sync"
            => (scrollLog[i].applied <=>
                    Dist(scrollLog[i].to, scrollLog[i].from)
                        >= SCROLL_NO_MOVEMENT_THRESHOLD_PX))
    /\ [][ Decides =>
             LET d == scrollLog'[Len(scrollLog')]
             IN  IF d.applied
                 THEN /\ (d.viewport = "editor" => editorScrollTop' = d.to)
                      /\ (d.viewport = "preview" => previewScrollTop' = d.to)
                 ELSE /\ editorScrollTop' = editorScrollTop
                      /\ previewScrollTop' = previewScrollTop
                      /\ scrollEvents' \subseteq scrollEvents
                      /\ programmaticScroll' = programmaticScroll
                      /\ {tm \in scrollTimers' : tm.kind = "clearGuard"}
                             \subseteq scrollTimers ]_vars

\* the preview was scrolled to one target, and the next target, one pixel
\* away, was skipped
C16_Witness ==
    \E i, j \in DOMAIN scrollLog :
        /\ i < j
        /\ i \in Corrections
        /\ scrollLog[i].viewport = "preview"
        /\ scrollLog[j].by = "sync"
        /\ scrollLog[j].viewport = "preview"
        /\ ~scrollLog[j].applied
        /\ scrollLog[j].from = scrollLog[i].to
        /\ Dist(scrollLog[j].to, scrollLog[j].from) = 1
        /\ previewScrollTop = scrollLog[i].to


\* ------------------------------------------- the anchor offset resolver
\* The resolver builds the AnchorOffsetTable from the published SourceMap and
\* the renderer's page metrics.  While the table is incomplete or the metrics
\* look provisional it retries at a fixed interval, up to an attempt count or a
\* hard timeout, and then commits the best table it has.

OFFSET_POLL_INTERVAL_MS == 120
OFFSET_POLL_TIMEOUT_MS == 200
MAX_OFFSET_POLL_ATTEMPTS == 8

MaxResolutions == 2
MaxResolverTicks == 12

ResolverTickMs == OFFSET_POLL_INTERVAL_MS \div 3
MaxResolverTime == ScrollStart + MaxResolverTicks * ResolverTickMs

\* what one attempt can obtain while the layout has not settled: nothing, the
\* anchors of the first page, or every anchor
PartialTables == {{}, {a \in Anchors : a.editorTop = 0}, Anchors}

\* the tables an attempt can obtain
AttemptTables(pm) == IF pm = "stable" THEN {Anchors} ELSE PartialTables

\* an attempt needs no retry: every anchor resolved against stable metrics
Complete(table, pm) == table = Anchors /\ pm = "stable"

\* the best table obtained so far
BetterTable(best, table) ==
    IF Cardinality(table) >= Cardinality(best) THEN table ELSE best

ShouldRetry_Always(attempts, elapsed) == TRUE

\* another attempt is made: below the attempt count and within the hard timeout
ShouldRetry(attempts, elapsed) ==
    /\ attempts < MAX_OFFSET_POLL_ATTEMPTS
    /\ elapsed < OFFSET_POLL_TIMEOUT_MS

\* a resolution starts: a compile completed, the SourceMap generation changed or
\* the renderer reported new page metrics; the old table is invalidated
StartResolution(pm) ==
    /\ sourceMap # None
    /\ resolutions < MaxResolutions
    /\ resolutions' = resolutions + 1
    /\ resolverPhase' = "polling"
    /\ pageMetrics' = pm
    /\ pollAttempts' = 0
    /\ pollStart' = now
    /\ pollTimer' = Some(now)
    /\ bestTable' = {}
    /\ offsetTable' = None
    /\ obtained' = {}
    /\ UNCHANGED <<coreVars, resolverFrame>>

\* images and fonts finished loading: the page metrics are stable from now on
MetricsSettle ==
    /\ resolverPhase = "polling"
    /\ pageMetrics = "provisional"
    /\ pageMetrics' = "stable"
    /\ UNCHANGED <<coreVars, resolverFrame, resolverPhase, pollAttempts, pollStart,
                   pollTimer, bestTable, offsetTable, obtained, resolutions>>

\* the poll timeout is due and another attempt is allowed: resolve, keep the
\* best table, commit when complete, otherwise wait one more interval
PollAttempt ==
    /\ resolverPhase = "polling"
    /\ pollTimer # None
    /\ pollTimer[1] <= now
    /\ ShouldRetry(pollAttempts, now - pollStart)
    /\ \E table \in AttemptTables(pageMetrics) :
          /\ pollAttempts' = pollAttempts + 1
          /\ bestTable' = BetterTable(bestTable, table)
          /\ obtained' = obtained \cup {table}
          /\ IF Complete(table, pageMetrics)
             THEN /\ resolverPhase' = "committed"
                  /\ offsetTable' = Some(bestTable')
                  /\ pollTimer' = None
             ELSE /\ pollTimer' = Some(now + OFFSET_POLL_INTERVAL_MS)
                  /\ UNCHANGED <<resolverPhase, offsetTable>>
    /\ UNCHANGED <<coreVars, resolverFrame, pollStart, pageMetrics, resolutions>>

\* the poll timeout is due and no attempt is allowed any more: the best table
\* is committed; nothing is reported
PollGiveUp ==
    /\ resolverPhase = "polling"
    /\ pollTimer # None
    /\ pollTimer[1] <= now
    /\ ~ShouldRetry(pollAttempts, now - pollStart)
    /\ resolverPhase' = "committed"
    /\ offsetTable' = Some(bestTable)
    /\ pollTimer' = None
    /\ UNCHANGED <<coreVars, resolverFrame, pollAttempts, pollStart, pageMetrics,
                   bestTable, obtained, resolutions>>

\* time passes; a due poll timeout runs first.  The clock stops at
\* MaxResolverTime unless a resolution is still waiting for its timeout
ResolverTick ==
    /\ pollTimer # None => now < pollTimer[1]
    /\ now < MaxResolverTime \/ pollTimer # None
    /\ now' = now + ResolverTickMs
    /\ UNCHANGED <<renderDebounceMs, docVars, typingVars, timerVars, sessionVars,
                   coalescerVars, previewVars, noticeVars, submitted, auxVars>>

ResolverNext ==
    \/ \E pm \in {"provisional", "stable"} : StartResolution(pm)
    \/ MetricsSettle
    \/ PollAttempt
    \/ PollGiveUp
    \/ ResolverTick

\* timeouts that are due run, and time passes
ResolverSpec ==
    /\ RenderedInit
    /\ [][ResolverNext]_vars
    /\ WF_vars(PollAttempt)
    /\ WF_vars(PollGiveUp)
    /\ WF_vars(ResolverTick)


\* ------------------------------------------------- useDebouncedCallback
\* One instance of the hook with a fixed delay.  The arguments of the k-th
\* debounced call are k, so that every call's arguments are distinct.

MaxDebounced == 3
MaxDebounceTicks == 6

delay == RENDER_DEBOUNCE_DEFAULT_MS
DebounceTickMs == delay \div 2
MaxDebounceTime == ScrollStart + MaxDebounceTicks * DebounceTickMs

\* debounced(...args)
debounced ==
    /\ debouncedCalls < MaxDebounced
    /\ LET args == debouncedCalls + 1
           id == debouncedCalls + 1
           cleared == IF timeoutRef # 0
                      THEN clearTimeout(debounceTimers, "debounced", timeoutRef)
                      ELSE debounceTimers
       IN  /\ debouncedCalls' = args
           /\ argsRef' = Some(args)
           /\ debounceTimers' =
                 cleared \cup {[kind |-> "debounced", id |-> id, args |-> args,
                              due |-> now + delay]}
           /\ timeoutRef' = id
    /\ lastOp' = "debounced"
    /\ UNCHANGED <<coreVars, debounceFrame, invoked, cancelled>>

\* cancel()
cancel ==
    /\ IF timeoutRef # 0
       THEN /\ debounceTimers' = clearTimeout(debounceTimers, "debounced", timeoutRef)
            /\ timeoutRef' = 0
       ELSE UNCHANGED <<debounceTimers, timeoutRef>>
    /\ argsRef' = None
    /\ cancelled' = cancelled \cup {t.args : t \in debounceTimers}
                              \cup {argsRef[i] : i \in 1..Len(argsRef)}
    /\ lastOp' = "cancel"
    /\ UNCHANGED <<coreVars, debounceFrame, debouncedCalls, invoked>>

\* flush()
flush ==
    /\ IF timeoutRef # 0
       THEN /\ debounceTimers' = clearTimeout(debounceTimers, "debounced", timeoutRef)
            /\ timeoutRef' = 0
       ELSE UNCHANGED <<debounceTimers, timeoutRef>>
    /\ IF argsRef # None
       THEN /\ invoked' = Append(invoked, [args |-> argsRef[1], by |-> "flush"])
            /\ argsRef' = None
       ELSE UNCHANGED <<invoked, argsRef>>
    /\ lastOp' = "flush"
    /\ UNCHANGED <<coreVars, debounceFrame, debouncedCalls, cancelled>>

\* the timeout set by debounced expires: the callback gets the arguments the
\* timeout closed over; timeoutRef keeps the id
timerExpires ==
    /\ \E t \in debounceTimers :
          /\ t.due <= now
          /\ debounceTimers' = debounceTimers \ {t}
          /\ invoked' = Append(invoked, [args |-> t.args, by |-> "timer"])
    /\ argsRef' = None
    /\ lastOp' = "timer"
    /\ UNCHANGED <<coreVars, debounceFrame, timeoutRef, debouncedCalls, cancelled>>

\* time passes; a due timeout runs first
DebounceTick ==
    /\ \A t \in debounceTimers : now < t.due
    /\ now < MaxDebounceTime
    /\ now' = now + DebounceTickMs
    /\ lastOp' = "tick"
    /\ UNCHANGED <<renderDebounceMs, docVars, typingVars, timerVars, sessionVars,
                   coalescerVars, previewVars, noticeVars, submitted,
                   debounceFrame, timeoutRef, argsRef, debounceTimers,
                   debouncedCalls, invoked, cancelled>>

DebounceNext ==
    \/ debounced
    \/ cancel
    \/ flush
    \/ timerExpires
    \/ DebounceTick

DebounceSpec == UnrenderedInit /\ [][DebounceNext]_vars

\* ----------------------------------------------------- sanitizeFilePath
\* A string is the sequence of its characters.  The characters are those the
\* function treats specially and one ordinary character; NUL is the null byte.

MaxPathLen == 6

NUL == "NUL"
Chars == {".", "/", "\\", NUL, " ", "a"}
Paths == UNION {[1..n -> Chars] : n \in 0..MaxPathLen}

\* str.replace(/pat/g, '') for a literal pattern: one pass from the left, the
\* search resumes after each match
RECURSIVE RemoveAll(_, _)
RemoveAll(str, pat) ==
    IF Len(str) < Len(pat) THEN str
    ELSE IF SubSeq(str, 1, Len(pat)) = pat
         THEN RemoveAll(SubSeq(str, Len(pat) + 1, Len(str)), pat)
         ELSE <<Head(str)>> \o RemoveAll(Tail(str), pat)

\* str.replace(/^c+/, '')
RECURSIVE RemoveLeading(_, _)
RemoveLeading(str, cs) ==
    IF str # <<>> /\ Head(str) \in cs THEN RemoveLeading(Tail(str), cs) ELSE str

\* the end of str without its trailing characters from cs
RECURSIVE RemoveTrailing(_, _)
RemoveTrailing(str, cs) ==
    IF str # <<>> /\ str[Len(str)] \in cs
    THEN RemoveTrailing(SubSeq(str, 1, Len(str) - 1), cs)
    ELSE str

\* str.replace(/c/g, '')
RemoveChar(str, c) == SelectSeq(str, LAMBDA x : x # c)

\* str.trim()
trim(str) == RemoveTrailing(RemoveLeading(str, {" "}), {" "})

sanitizeFilePath(p) ==
    IF p = <<>> THEN <<>>
    ELSE LET noParent == RemoveAll(p, <<".", ".", "/">>)
             noParentWin == RemoveAll(noParent, <<".", ".", "\\">>)
             noLeadingSlash == RemoveLeading(noParentWin, {"/"})
             noNull == RemoveChar(noLeadingSlash, NUL)
         IN  trim(noNull)

\* pat occurs in str
Contains(str, pat) ==
    \E i \in 1..(Len(str) - Len(pat) + 1) : SubSeq(str, i, i + Len(pat) - 1) = pat

\* any string of the bounded length may be passed
SanitizeInit ==
    /\ UnrenderedCore
    /\ ScrollInit /\ ResolverInit /\ DebounceInit /\ PerfInit /\ ModalInit
    /\ path \in Paths
    /\ sanitized = None

\* the call
Sanitize ==
    /\ sanitized = None
    /\ sanitized' = Some(sanitizeFilePath(path))
    /\ UNCHANGED <<coreVars, sanitizeFrame, path>>

SanitizeNext == Sanitize

SanitizeSpec == SanitizeInit /\ [][SanitizeNext]_vars

\* --------------------------------------------------- PerformanceMonitor
\* The monitor with monitoring enabled.  The duration of the k-th sample of a
\* label since the last clear is Duration(k): the durations of consecutive
\* samples differ and are not in ascending order.

MAX_PERFORMANCE_SAMPLES == 100

MaxSamples == 102

Duration(k) == (k * 37) % 101

recordMetric_NoShift(m, label, duration) ==
    [m EXCEPT ![label] = [present |-> TRUE, values |-> Append(@.values, duration)]]

\* recordMetric(label, duration): push, then drop the oldest sample when there
\* are more than maxSamples
recordMetric(m, label, duration) ==
    LET values == IF m[label].present THEN m[label].values ELSE <<>>
        pushed == Append(values, duration)
        kept == IF Len(pushed) > MAX_PERFORMANCE_SAMPLES THEN Tail(pushed) ELSE pushed
    IN  [m EXCEPT ![label] = [present |-> TRUE, values |-> kept]]

\* getStats(label): count, min, max and the sum that avg is computed from
getStats(m, label) ==
    IF ~m[label].present \/ Len(m[label].values) = 0 THEN None
    ELSE LET sorted == SortSeq(m[label].values, LAMBDA a, b : a < b)
             sum[n \in 0..Len(sorted)] == IF n = 0 THEN 0 ELSE sum[n - 1] + sorted[n]
         IN  Some([count |-> Len(sorted), min |-> sorted[1],
                   max |-> sorted[Len(sorted)], sum |-> sum[Len(sorted)]])

\* a sample of the label is recorded
Record(label) ==
    /\ Len(recorded[label]) < MaxSamples
    /\ LET duration == Duration(Len(recorded[label]) + 1)
       IN  /\ metrics' = recordMetric(metrics, label, duration)
           /\ recorded' = [recorded EXCEPT ![label] = Append(@, duration)]

\* measure(label, fn), fn returning
measure(label) ==
    /\ Record(label)
    /\ UNCHANGED <<coreVars, perfFrame, running>>

\* measureAsync(label, fn) or start(label): the measurement begins
Begin(kind, label) ==
    /\ [kind |-> kind, label |-> label] \notin running
    /\ running' = running \cup {[kind |-> kind, label |-> label]}
    /\ UNCHANGED <<coreVars, perfFrame, metrics, recorded>>

\* measureAsync: the promise resolves; start: the function returned is called
End(kind, label) ==
    /\ [kind |-> kind, label |-> label] \in running
    /\ running' = running \ {[kind |-> kind, label |-> label]}
    /\ Record(label)
    /\ UNCHANGED <<coreVars, perfFrame>>

\* measureAsync: the promise rejects, nothing is recorded
measureAsyncRejects(label) ==
    /\ [kind |-> "measureAsync", label |-> label] \in running
    /\ running' = running \ {[kind |-> "measureAsync", label |-> label]}
    /\ UNCHANGED <<coreVars, perfFrame, metrics, recorded>>

\* clear(label)
clear(label) ==
    /\ metrics[label].present
    /\ metrics' = [metrics EXCEPT ![label] = [present |-> FALSE, values |-> <<>>]]
    /\ recorded' = [recorded EXCEPT ![label] = <<>>]
    /\ UNCHANGED <<coreVars, perfFrame, running>>

PerfNext ==
    \/ \E label \in Labels : measure(label)
    \/ \E label \in Labels : Begin("measureAsync", label)
    \/ \E label \in Labels : End("measureAsync", label)
    \/ \E label \in Labels : measureAsyncRejects(label)
    \/ \E label \in Labels : Begin("start", label)
    \/ \E label \in Labels : End("start", label)
    \/ \E label \in Labels : clear(label)

PerfSpec == UnrenderedInit /\ [][PerfNext]_vars

\* ============================================ batch export: the file list
\* The list holds the ids of the files, which are all different.  A drop or a
\* file-dialog selection offers a number of Markdown files.

MAX_FILES == 50

MaxListOps == 4

\* how many files one drop or one selection offers
OfferSizes == {1, 2, 48, 51}

Min(a, b) == IF a <= b THEN a ELSE b

\* array.slice(0, n)
Slice(array, n) == SubSeq(array, 1, Min(Len(array), Max0(n)))

\* the FileItems made for the first files offered that fit into the slots
\* available according to knownLength
NewFiles(offered, knownLength) ==
    [k \in 1..Min(offered, Max0(MAX_FILES - knownLength)) |-> nextFileId + k - 1]

AppendCapped_NoSlice(prev, newFiles) == prev \o newFiles

\* setFiles(prev => [...prev, ...newFiles].slice(0, MAX_FILES))
AppendCapped(prev, newFiles) == Slice(prev \o newFiles, MAX_FILES)

\* the positions whose buttons are clicked: both ends of the list and one inside
ClickIndexes == {1, 2, Len(files)} \cap (1..Len(files))

\* no native dialog is open: the window takes clicks
NoDialog ==
    /\ fileDialog = None
    /\ \A e \in DOMAIN exports : exports[e].pc # "dialog"

\* the toolbar opens the modal
OpenBatchExport ==
    /\ ~batchExportModalOpen
    /\ NoDialog
    /\ batchExportModalOpen' = TRUE
    /\ lastListOp' = [op |-> "open", index |-> 0, offered |-> 0]
    /\ UNCHANGED <<coreVars, batchFrame, exportVars, files, nextFileId, fileDialog,
                   listOps>>

\* the tauri://drag-drop listener (lines 170-220), offered Markdown files
DropFiles(offered) ==
    /\ batchExportModalOpen
    /\ listOps < MaxListOps
    /\ listOps' = listOps + 1
    /\ LET newFiles == NewFiles(offered, Len(files))
       IN  /\ files' = AppendCapped(files, newFiles)
           /\ nextFileId' = nextFileId + Len(newFiles)
    /\ lastListOp' = [op |-> "drop", index |-> 0, offered |-> offered]
    /\ UNCHANGED <<coreVars, batchFrame, exportVars, batchExportModalOpen, fileDialog>>

\* handleFileSelect up to the await of the file dialog (lines 234-239)
FileSelectOpens ==
    /\ batchExportModalOpen
    /\ NoDialog
    /\ fileDialog' = Some(Len(files))
    /\ lastListOp' = [op |-> "dialog", index |-> 0, offered |-> 0]
    /\ UNCHANGED <<coreVars, batchFrame, exportVars, batchExportModalOpen, files,
                   nextFileId, listOps>>

\* handleFileSelect after the dialog (lines 241-260): files.length is the one
\* of the render in which the button was clicked
FileSelectReturns(offered) ==
    /\ fileDialog # None
    /\ listOps < MaxListOps
    /\ listOps' = listOps + 1
    /\ fileDialog' = None
    /\ LET newFiles == NewFiles(offered, fileDialog[1])
       IN  /\ files' = IF offered = 0 THEN files ELSE AppendCapped(files, newFiles)
           /\ nextFileId' = nextFileId + Len(newFiles)
    /\ lastListOp' = [op |-> "select", index |-> 0, offered |-> offered]
    /\ UNCHANGED <<coreVars, batchFrame, exportVars, batchExportModalOpen>>

\* a click on a button of the list entry at index (1-based)
ListClick(op, index, newFiles) ==
    /\ batchExportModalOpen
    /\ NoDialog
    /\ listOps < MaxListOps
    /\ index \in ClickIndexes
    /\ listOps' = listOps + 1
    /\ files' = newFiles
    /\ lastListOp' = [op |-> op, index |-> index, offered |-> 0]
    /\ UNCHANGED <<coreVars, batchFrame, exportVars, batchExportModalOpen, nextFileId,
                   fileDialog>>

\* the array with the elements at i and j exchanged
Swap(array, i, j) == [array EXCEPT ![i] = array[j], ![j] = array[i]]

\* prev.filter(f => f.id !== id), id being the id of the entry clicked
removeFile(index) ==
    ListClick("removeFile", index, SelectSeq(files, LAMBDA id : id # files[index]))

moveFileUp(index) ==
    ListClick("moveFileUp", index,
              IF index = 1 THEN files ELSE Swap(files, index - 1, index))

moveFileDown(index) ==
    ListClick("moveFileDown", index,
              IF index = Len(files) THEN files ELSE Swap(files, index, index + 1))

\* splice(index, 1), then unshift
moveFileToTop(index) ==
    ListClick("moveFileToTop", index,
              IF index = 1 THEN files
              ELSE <<files[index]>> \o SubSeq(files, 1, index - 1)
                                    \o SubSeq(files, index + 1, Len(files)))

\* handleCancel (lines 452-461)
handleCancel ==
    /\ batchExportModalOpen' = FALSE
    /\ files' = <<>>
    /\ outputFormat' = "separate"
    /\ isExporting' = FALSE
    /\ lastListOp' = [op |-> "handleCancel", index |-> 0, offered |-> 0]
    /\ UNCHANGED <<coreVars, batchFrame, nextFileId, fileDialog, listOps, exports,
                   persistedPrefs>>

\* the footer's Cancel button: disabled while exporting
CancelButton ==
    /\ batchExportModalOpen
    /\ NoDialog
    /\ ~isExporting
    /\ handleCancel

\* the header's close button or a click on the overlay
CloseOrOverlay ==
    /\ batchExportModalOpen
    /\ NoDialog
    /\ handleCancel

FilesNext ==
    \/ OpenBatchExport
    \/ \E offered \in OfferSizes : DropFiles(offered)
    \/ FileSelectOpens
    \/ \E offered \in OfferSizes \cup {0} : FileSelectReturns(offered)
    \/ \E index \in 1..MAX_FILES : removeFile(index)
    \/ \E index \in 1..MAX_FILES : moveFileUp(index)
    \/ \E index \in 1..MAX_FILES : moveFileDown(index)
    \/ \E index \in 1..MAX_FILES : moveFileToTop(index)

FilesSpec == UnrenderedInit /\ [][FilesNext]_vars

\* ============================================ batch export: handleExport
\* The persisted preferences are "user" (what the user has set) or the
\* preferences of a theme preset, named by the theme.

MaxExports == 2

Themes == {"custom", "modern"}

\* lines 339-349: the preferences of the selected theme
ThemePrefs(selectedTheme) == IF selectedTheme = "custom" THEN "user" ELSE selectedTheme

\* the radio buttons of the output format
SetOutputFormat(format) ==
    /\ batchExportModalOpen
    /\ NoDialog
    /\ format # outputFormat
    /\ outputFormat' = format
    /\ UNCHANGED <<coreVars, batchFrame, batchVars, isExporting, exports, persistedPrefs>>

\* the Export button (disabled without files and while exporting): handleExport
\* up to the await of the folder or file dialog (lines 293-311)
ExportButton(selectedTheme) ==
    /\ batchExportModalOpen
    /\ NoDialog
    /\ files # <<>>
    /\ ~isExporting
    /\ Len(exports) < MaxExports
    /\ exports' = Append(exports,
          [format |-> outputFormat, files |-> files,
           themePrefs |-> ThemePrefs(selectedTheme), pc |-> "dialog", index |-> 0,
           failedFiles |-> FALSE, originalPrefs |-> None, before |-> persistedPrefs])
    /\ UNCHANGED <<coreVars, batchFrame, batchVars, isExporting, outputFormat,
                   persistedPrefs>>

\* the dialog returns (lines 312-337): nothing chosen ends the export
ExportDialogReturns(e, chosen) ==
    /\ exports[e].pc = "dialog"
    /\ IF chosen
       THEN /\ isExporting' = TRUE
            /\ exports' = [exports EXCEPT ![e].pc = "getPreferences"]
       ELSE /\ exports' = [exports EXCEPT ![e].pc = "cancelled"]
            /\ UNCHANGED isExporting
    /\ UNCHANGED <<coreVars, batchFrame, batchVars, outputFormat, persistedPrefs>>

\* line 352: const originalPrefs = await getPreferences()
GetPreferencesResolves(e) ==
    /\ exports[e].pc = "getPreferences"
    /\ exports' = [exports EXCEPT ![e].pc = "persistPreferences",
                                  ![e].originalPrefs = Some(persistedPrefs)]
    /\ UNCHANGED <<coreVars, batchFrame, batchVars, isExporting, outputFormat,
                   persistedPrefs>>

\* line 355: await persistPreferences(themePrefs)
ThemeApplied(e) ==
    /\ exports[e].pc = "persistPreferences"
    /\ persistedPrefs' = exports[e].themePrefs
    /\ exports' = [exports EXCEPT
          ![e].pc = IF exports[e].format = "separate" THEN "file" ELSE "readFiles",
          ![e].index = 1]
    /\ UNCHANGED <<coreVars, batchFrame, batchVars, isExporting, outputFormat>>

\* separate mode, lines 362-387: one file is read, rendered and saved, or one
\* of the three fails, which is caught: failedFiles is not empty any more and
\* the loop goes on
FileSettles(e, ok) ==
    /\ exports[e].pc = "file"
    /\ exports' = [exports EXCEPT
          ![e].pc = IF exports[e].index = Len(exports[e].files) THEN "restore" ELSE "file",
          ![e].index = @ + 1,
          ![e].failedFiles = @ \/ ~ok]
    /\ UNCHANGED <<coreVars, batchFrame, batchVars, isExporting, outputFormat,
                   persistedPrefs>>

\* merged mode, lines 399-431: the next step after reading, rendering, saving
MergedStepAfter(pc) ==
    IF pc = "readFiles" THEN "renderTypst"
    ELSE IF pc = "renderTypst" THEN "save_pdf_as"
    ELSE "restore"

\* merged mode: reading all files, rendering or saving resolves, or rejects
\* and the catch block runs (lines 443-449)
MergedStepSettles(e, ok) ==
    /\ exports[e].pc \in {"readFiles", "renderTypst", "save_pdf_as"}
    /\ IF ok
       THEN /\ exports' = [exports EXCEPT ![e].pc = MergedStepAfter(@)]
            /\ UNCHANGED isExporting
       ELSE /\ exports' = [exports EXCEPT ![e].pc = "failed"]
            /\ isExporting' = FALSE
    /\ UNCHANGED <<coreVars, batchFrame, batchVars, outputFormat, persistedPrefs>>

\* lines 433-439: await persistPreferences(originalPrefs), export state reset
PreferencesRestored(e) ==
    /\ exports[e].pc = "restore"
    /\ persistedPrefs' = exports[e].originalPrefs[1]
    /\ isExporting' = FALSE
    /\ exports' = [exports EXCEPT ![e].pc = "done"]
    /\ UNCHANGED <<coreVars, batchFrame, batchVars, outputFormat>>

ExportNext ==
    \/ OpenBatchExport
    \/ \E offered \in {1, 2} : files = <<>> /\ DropFiles(offered)
    \/ \E format \in {"separate", "merged"} : SetOutputFormat(format)
    \/ \E selectedTheme \in Themes : ExportButton(selectedTheme)
    \/ \E e \in DOMAIN exports, chosen \in BOOLEAN : ExportDialogReturns(e, chosen)
    \/ \E e \in DOMAIN exports : GetPreferencesResolves(e)
    \/ \E e \in DOMAIN exports : ThemeApplied(e)
    \/ \E e \in DOMAIN exports, ok \in BOOLEAN : FileSettles(e, ok)
    \/ \E e \in DOMAIN exports, ok \in BOOLEAN : MergedStepSettles(e, ok)
    \/ \E e \in DOMAIN exports : PreferencesRestored(e)
    \/ CancelButton
    \/ CloseOrOverlay

ExportSpec == UnrenderedInit /\ [][ExportNext]_vars

\* ---------------------------------------------------------------------------
\* SettingsModal (BatchExportModal.tsx 712-925).  The preferences are records
\* of three of the fields of Preferences, one of them the nested margin.
\* ---------------------------------------------------------------------------

\* clonePreferences: a copy of the record with a fresh margin object
clonePreferences(prefs) ==
    [papersize |-> prefs.papersize, toc |-> prefs.toc, margin |-> [x |-> prefs.margin.x]]

\* the patches (Partial<Preferences>) the General tab hands to mutate
Patches ==
    {[papersize |-> v] : v \in PaperSizes}
        \cup {[toc |-> b] : b \in BOOLEAN}
        \cup {[margin |-> [x |-> m]] : m \in Margins}

\* { ...local, ...p }
Merged(loc, p) == [k \in DOMAIN loc |-> IF k \in DOMAIN p THEN p[k] ELSE loc[k]]

\* the second effect: while the modal is open and nothing is unsaved the local
\* copy follows the stored preferences
LocalAfterEffect(open, isDirty, prefs, loc) ==
    IF open /\ ~isDirty THEN clonePreferences(prefs) ELSE loc

\* the value Cancel writes back: originalRef.current ?? preferences
CancelSnapshot_Current(original, prefs) == clonePreferences(prefs)
CancelSnapshot(original, prefs) == clonePreferences(original)

\* the modal is opened; the first effect takes the snapshot of the stored
\* preferences
OpenSettings ==
    /\ ~settingsModalOpen
    /\ settingsModalOpen' = TRUE
    /\ hasBeenOpenRef' = TRUE
    /\ IF ~hasBeenOpenRef
         THEN /\ local' = clonePreferences(preferences)
              /\ originalRef' = clonePreferences(preferences)
              /\ dirty' = FALSE
              /\ autoApply' = TRUE
         ELSE /\ local' = LocalAfterEffect(TRUE, dirty, preferences, local)
              /\ UNCHANGED <<originalRef, dirty, autoApply>>
    /\ openedWith' = preferences
    /\ lastClick' = [op |-> "open", before |-> preferences]
    /\ UNCHANGED <<preferences, coreVars, settingsFrame>>

\* a setting is changed in the General tab
mutate(p) ==
    /\ settingsModalOpen
    /\ IF autoApply
         THEN /\ preferences' = clonePreferences(Merged(local, p))
              /\ dirty' = FALSE
              /\ local' = LocalAfterEffect(TRUE, FALSE, preferences',
                                           clonePreferences(Merged(local, p)))
         ELSE /\ local' = Merged(local, p)
              /\ dirty' = TRUE
              /\ UNCHANGED preferences
    /\ lastClick' = [op |-> "mutate", before |-> preferences]
    /\ UNCHANGED <<settingsModalOpen, autoApply, originalRef, hasBeenOpenRef, openedWith,
                   coreVars, settingsFrame>>

\* the auto-apply checkbox
ToggleAutoApply ==
    /\ settingsModalOpen
    /\ autoApply' = ~autoApply
    /\ IF ~autoApply /\ dirty
         THEN /\ preferences' = clonePreferences(local)
              /\ dirty' = FALSE
              /\ local' = LocalAfterEffect(TRUE, FALSE, preferences', clonePreferences(local))
         ELSE UNCHANGED <<preferences, dirty, local>>
    /\ lastClick' = [op |-> "autoApply", before |-> preferences]
    /\ UNCHANGED <<settingsModalOpen, originalRef, hasBeenOpenRef, openedWith,
                   coreVars, settingsFrame>>

\* the Reset button
ResetButton ==
    /\ settingsModalOpen
    /\ IF autoApply
         THEN /\ preferences' = clonePreferences(defaultPreferences)
              /\ dirty' = FALSE
              /\ local' = LocalAfterEffect(TRUE, FALSE, preferences',
                                           clonePreferences(defaultPreferences))
         ELSE /\ local' = clonePreferences(defaultPreferences)
              /\ dirty' = TRUE
              /\ UNCHANGED preferences
    /\ lastClick' = [op |-> "reset", before |-> preferences]
    /\ UNCHANGED <<settingsModalOpen, autoApply, originalRef, hasBeenOpenRef, openedWith,
                   coreVars, settingsFrame>>

\* the Cancel button; closing the modal makes the first effect clear
\* hasBeenOpenRef
SettingsCancel ==
    /\ settingsModalOpen
    /\ preferences' = CancelSnapshot(originalRef, preferences)
    /\ local' = CancelSnapshot(originalRef, preferences)
    /\ dirty' = FALSE
    /\ settingsModalOpen' = FALSE
    /\ hasBeenOpenRef' = FALSE
    /\ lastClick' = [op |-> "cancel", before |-> preferences]
    /\ UNCHANGED <<autoApply, originalRef, openedWith, coreVars, settingsFrame>>

\* the Save button, enabled while there are unsaved changes
SettingsSave ==
    /\ settingsModalOpen
    /\ dirty
    /\ preferences' = clonePreferences(local)
    /\ local' = clonePreferences(local)
    /\ originalRef' = clonePreferences(local)
    /\ dirty' = FALSE
    /\ settingsModalOpen' = FALSE
    /\ hasBeenOpenRef' = FALSE
    /\ lastClick' = [op |-> "save", before |-> preferences]
    /\ UNCHANGED <<autoApply, openedWith, coreVars, settingsFrame>>

\* the close button and the overlay: setSettingsModalOpen(false) and nothing
\* else
SettingsClose ==
    /\ settingsModalOpen
    /\ settingsModalOpen' = FALSE
    /\ hasBeenOpenRef' = FALSE
    /\ lastClick' = [op |-> "close", before |-> preferences]
    /\ UNCHANGED <<preferences, local, dirty, autoApply, originalRef, openedWith,
                   coreVars, settingsFrame>>

SettingsNext ==
    \/ OpenSettings
    \/ \E p \in Patches : mutate(p)
    \/ ToggleAutoApply
    \/ ResetButton
    \/ SettingsCancel
    \/ SettingsSave
    \/ SettingsClose

SettingsSpec == UnrenderedInit /\ [][SettingsNext]_vars

\* C17: anchor offset resolution always terminates.  However long the page
\* metrics stay provisional, an attempt is made only below 8 attempts and
\* before the 200 ms hard timeout has elapsed; a resolution that is polling
\* is committed within one more interval; the table committed is the best one
\* obtained so far, and committing changes neither the render status, the
\* preview error nor the notices.
C17_ResolutionTerminates ==
    /\ [](pollAttempts <= MAX_OFFSET_POLL_ATTEMPTS)
    /\ [](resolverPhase = "polling" =>
             /\ pollTimer # None
             /\ now - pollStart < OFFSET_POLL_TIMEOUT_MS + OFFSET_POLL_INTERVAL_MS)
    /\ [][pollAttempts' = pollAttempts + 1 =>
             /\ pollAttempts < MAX_OFFSET_POLL_ATTEMPTS
             /\ now - pollStart < OFFSET_POLL_TIMEOUT_MS]_vars
    /\ [][(resolverPhase = "polling" /\ resolverPhase' = "committed") =>
             /\ \E table \in obtained' \cup {{}} :
                   /\ offsetTable' = Some(table)
                   /\ \A other \in obtained' :
                         Cardinality(other) <= Cardinality(table)
             /\ UNCHANGED <<compileStatus, previewVars, noticeVars>>]_vars
    /\ (resolverPhase = "polling") ~> (resolverPhase = "committed")

C17_Witness ==
    /\ resolverPhase = "committed"
    /\ pageMetrics = "provisional"
    /\ pollAttempts > 1
    /\ now - pollStart >= OFFSET_POLL_TIMEOUT_MS
    /\ offsetTable # None
    /\ offsetTable[1] \notin {{}, Anchors}
    /\ {} \in obtained


C19_NoTraversalInResult ==
    sanitized # None =>
        /\ ~Contains(sanitized[1], <<".", ".", "/">>)
        /\ ~Contains(sanitized[1], <<".", ".", "\\">>)
        /\ sanitized[1] # <<>> => Head(sanitized[1]) # "/"


\* the last n elements of a sequence
LastN(seq, n) ==
    IF Len(seq) <= n THEN seq ELSE SubSeq(seq, Len(seq) - n + 1, Len(seq))

\* C20: for every label the monitor retains at most MAX_PERFORMANCE_SAMPLES
\* samples, and they are the most recently recorded ones in recording order;
\* getStats reports the number of retained samples as count, and null exactly
\* for a label without samples.
C20_RetainsLatestSamples ==
    \A label \in Labels :
        /\ Len(metrics[label].values) <= MAX_PERFORMANCE_SAMPLES
        /\ metrics[label].values = LastN(recorded[label], MAX_PERFORMANCE_SAMPLES)
        /\ IF recorded[label] = <<>>
           THEN getStats(metrics, label) = None
           ELSE /\ getStats(metrics, label) # None
                /\ getStats(metrics, label)[1].count = Len(metrics[label].values)

C20_Witness ==
    \E label \in Labels :
        /\ Len(recorded[label]) > MAX_PERFORMANCE_SAMPLES + 1
        /\ Len(metrics[label].values) = MAX_PERFORMANCE_SAMPLES
        /\ Head(metrics[label].values) = recorded[label][3]
        /\ getStats(metrics, label)[1].count = MAX_PERFORMANCE_SAMPLES
        /\ \E other \in Labels : getStats(metrics, other) = None


\* C21: after the editor is torn down no render-debounce or typing-idle
\* timer fires (no submit, no change of the typing flags), and no compile
\* publishes a SourceMap or a compile status.
C21_TeardownSilences ==
    [][~mounted =>
          /\ UNCHANGED <<submitted, isTyping, isUserTypingRef>>
          /\ UNCHANGED <<sourceMap, compileStatus>>]_vars


\* C22: whenever the render-debounce timer invokes handleAutoRender, the
\* text it passes is the editor's current document text.
C22_TimerSubmitsCurrentText ==
    [][Len(submitted') > Len(submitted) =>
          submitted'[Len(submitted')].text = doc']_vars


\* C23: when every compile call has returned or thrown, none of them with its
\* abort signal set, and no text is pending, the compile status is ok or
\* error, not running.
C23_StatusNotLeftRunning ==
    ( /\ calls # <<>>
      /\ Compiling = {}
      /\ pendingRenderRef = None
      /\ \A i \in DOMAIN calls : ~AbortSet(calls[i].signal) )
    => compileStatus.status \in {"ok", "error"}


\* C24: a text submitted while a compile is in flight is not lost, whatever
\* its value: when the submit's task ends, a compile of the text has been
\* started or the text is in the pending slot.
C24_PendingTextCompiled ==
    [][ ( /\ Len(submitted') > Len(submitted)
          /\ autoRenderInFlightRef
          /\ ~AbortSet(submitted'[Len(submitted')].edit) )
        => LET submit == submitted'[Len(submitted')]
           IN  \/ /\ submit.started # 0
                  /\ calls'[submit.started].text = submit.text
               \/ pendingRenderRef' = Some(submit.text) ]_vars


\* C25: a programmatic document change (the document changes and no user
\* edit is recorded) only updates the stored content: the typing flags and the
\* modified flag are unchanged, no timer is cancelled or started, and no
\* render is submitted or started.
C25_ProgrammaticUpdateOnlyStoresContent ==
    [][(doc' # doc /\ lastEdit' = lastEdit) =>
          /\ content' = doc'
          /\ UNCHANGED <<isTyping, isUserTypingRef, modified>>
          /\ UNCHANGED <<timers, contentChangeTimeoutRef, typingDetectionTimeoutRef,
                         contentChangeAbortRef, aborted>>
          /\ UNCHANGED <<submitted, calls, pendingRenderRef, autoRenderInFlightRef,
                         compileStatus>>]_vars

C25_Witness ==
    /\ lastEdit # None
    /\ doc # lastEdit[1].text
    /\ content = doc
    /\ isTyping /\ isUserTypingRef /\ modified
    /\ \E tm \in timers : tm.kind = "render" /\ tm.id = lastEdit[1].id
    /\ \E tm \in timers : tm.kind = "typing" /\ tm.id = lastEdit[1].id


\* the elements of a sequence
Range(seq) == {seq[k] : k \in DOMAIN seq}

\* C28: the file list never holds more than MAX_FILES entries; a drop or a
\* selection appends the files offered in order as far as the cap allows and
\* ignores the others; a removal takes out the entry clicked; move up, move
\* down and move to top only permute the list and change nothing at the
\* boundary of the list.
C28_FileListCapped ==
    /\ [](Len(files) <= MAX_FILES)
    /\ [](Cardinality(Range(files)) = Len(files))
    /\ [][lastListOp'.op \in {"drop", "select"} =>
             /\ Len(files') = Min(MAX_FILES, Len(files) + lastListOp'.offered)
             /\ SubSeq(files', 1, Len(files)) = files
             /\ \A k \in (Len(files) + 1)..Len(files') :
                   files'[k] = nextFileId + k - Len(files) - 1]_vars
    /\ [][lastListOp'.op = "removeFile" =>
             /\ Len(files') = Len(files) - 1
             /\ Range(files') = Range(files) \ {files[lastListOp'.index]}]_vars
    /\ [][lastListOp'.op \in {"moveFileUp", "moveFileDown", "moveFileToTop"} =>
             /\ Len(files') = Len(files)
             /\ Range(files') = Range(files)
             /\ (lastListOp'.op # "moveFileDown" /\ lastListOp'.index = 1)
                   => files' = files
             /\ (lastListOp'.op = "moveFileDown" /\ lastListOp'.index = Len(files))
                   => files' = files
             /\ (lastListOp'.op = "moveFileToTop")
                   => files'[1] = files[lastListOp'.index]]_vars

C28_Witness ==
    /\ Len(files) = MAX_FILES
    /\ lastListOp.op = "select"
    /\ lastListOp.offered > 1
    /\ files[MAX_FILES] # MAX_FILES
    /\ files[1] # 1
    /\ listOps = MaxListOps


\* handleExport e ends in this step
Finishes(e) ==
    /\ exports[e].pc \notin {"done", "failed", "cancelled"}
    /\ exports'[e].pc \in {"done", "failed", "cancelled"}

\* C26: once handleExport has finished, in whatever way, the persisted
\* preferences are those that were persisted when the export started.
C26_PreferencesRestored ==
    [][\A e \in DOMAIN exports :
          Finishes(e) => persistedPrefs' = exports[e].before]_vars

\* handleExport e has applied the theme and not yet restored the original
Between(e) ==
    exports[e].pc \in {"file", "readFiles", "renderTypst", "save_pdf_as", "restore"}

\* C27: handleExport is never started while an earlier handleExport is
\* between applying the theme preferences and restoring the original ones.
C27_OneExportAtATime ==
    [][Len(exports') > Len(exports) =>
          \A e \in DOMAIN exports : ~Between(e)]_vars

\* C29: in the Settings modal, whatever settings were changed, however often
\* Reset was clicked and auto-apply was switched after the modal opened, a click
\* on Cancel leaves the stored preferences equal to the value they had when the
\* modal opened, and closes the modal.
C29_CancelRestoresPreferences ==
    lastClick.op = "cancel" => (preferences = openedWith /\ ~settingsModalOpen)

\* Cancel was clicked while the stored preferences differed from the ones the
\* modal opened with, and they are back
C29_Witness ==
    /\ lastClick.op = "cancel"
    /\ lastClick.before # openedWith
    /\ preferences = openedWith

====
